---- MODULE Spec2Model ----
(***************************************************************************)
(* wb-hook: a webhook sink.  A bin ("URL", keyed by a guid) stores the     *)
(* requests captured for it; viewers list, fetch, rename and delete, and   *)
(* follow new captures over server-sent events.                            *)
(*                                                                         *)
(* The repository holds three variants of the same server:                 *)
(*   "sql"    src/app.js               one SQLite file per bin             *)
(*   "json"   src/app-json.js          one JSON document {name, requests}  *)
(*   "legacy" src/unnamed/part_000     one JSON array of requests          *)
(*            (lines 125-377)                                              *)
(* Node runs one callback at a time, so a handler is a chain of atomic     *)
(* steps, one per await or database callback; steps of different requests  *)
(* interleave.  Each action below is one such step.                        *)
(***************************************************************************)
EXTENDS Integers, Sequences, FiniteSets, TLC

\* ------------------------------------------------------------------ bounds
MaxRequests == 3    \* requests accepted in one run of the whole server
StoreRequests == 5  \* requests accepted in one run on a single bin
MaxCaptures == 3    \* capture requests among them
NumClients == 1     \* live-stream connections opened in one run
MaxLogArg == 2      \* largest log number a delete request names
FaultRequests == 2  \* requests accepted in one run with failing storage
FaultClients == 2   \* live-stream connections opened in such a run
StreamRequests == 3 \* requests accepted in one run on a bin with listeners
PublishRequests == 2 \* the same, in a run with failing storage and sockets
IsolationRequests == 3 \* requests accepted in one run on two bins with listeners
IsolationClients == 2  \* live-stream connections opened in such a run
RegistryRequests == 2  \* requests accepted in one run on a bin with two listeners
RegistryClients == 2   \* live-stream connections opened in such a run

Backends == {"sql", "json", "legacy"}
Guids == {"g1", "g2"}
ReqNames == {"n1"}              \* names a rename or create request carries
Procs == {1, 2}                  \* request slots: two requests in flight at once
LogSets == SUBSET (1..MaxLogArg)

\* --------------------------------------------------------------- variables
VARIABLES
    backend,     \* which variant of the server runs
    files,       \* DATA_DIR: guid -> the bin's file
    sseClients,  \* the SSE registry: guid -> list of response objects
    conn,        \* each live-stream connection: state, guid, keep-alives
    received,    \* what has been written to each live-stream connection
    procs,       \* the requests in flight: position and locals
    used,        \* guids seen so far: generateGuid returns an unseen one
    clock,       \* number of capture requests so far (their timestamps)
    left,        \* number of requests this run still accepts
    crashed,     \* an uncaught exception has ended the process
    assigned,    \* history: per guid, the log numbers given out, in order
    done,        \* history: per guid, the kinds of change answered 200
    serial,      \* history: per guid, no two requests on it overlapped so far
    lastDone     \* history: the answer the step just taken has sent, if any

\* the live-stream connections of the run
Clients == DOMAIN conn

vars == <<backend, files, sseClients, conn, received, procs, used, clock,
          left, crashed, assigned, done, serial, lastDone>>

\* ------------------------------------------------------------------- files
NoRow == "norow"        \* sql: the metadata table holds no row
NoFile == [exists |-> FALSE, tables |-> FALSE, name |-> NoRow,
           requests |-> <<>>, seq |-> 0]

\* new sqlite3.Database(dbPath): the default mode creates a missing file
OpenDatabase(f) == IF f.exists THEN f ELSE [NoFile EXCEPT !.exists = TRUE]

\* CREATE TABLE IF NOT EXISTS metadata / requests
CreateTables(f) == [OpenDatabase(f) EXCEPT !.tables = TRUE]

\* fs.writeFile(filePath, JSON.stringify(data)): creates or replaces the file
WriteFile(data) == [exists |-> TRUE, tables |-> FALSE, name |-> data.name,
                    requests |-> data.requests, seq |-> 0]

\* JSON.parse(await fs.readFile(filePath))
ParseFile(f) == [name |-> f.name, requests |-> f.requests]

NoData == [name |-> NoRow, requests |-> <<>>]

\* ----------------------------------------------------------- log numbering
MaxOf(S) == IF S = {} THEN 0 ELSE CHOOSE m \in S : \A x \in S : x <= m

LogNumbers(requests) == {requests[i].logNumber : i \in 1..Len(requests)}

\* a wrong numbering: counts from 0
NextLogNumberFromZero(requests) == Len(requests)

\* requestData.logNumber = data.requests.length + 1
NextLogNumber(requests) == Len(requests) + 1

\* logNumber INTEGER PRIMARY KEY AUTOINCREMENT: one more than the largest
\* rowid the table ever held (sqlite_sequence), never a reused one
AutoIncrement(f) == MaxOf(LogNumbers(f.requests) \cup {f.seq}) + 1

\* requests.filter(log => !logs.includes(log.logNumber)),
\* DELETE FROM requests WHERE logNumber IN (...)
FilterLogs(requests, logs) ==
    SelectSeq(requests, LAMBDA e : e.logNumber \notin logs)

\* ----------------------------------------------------------------- procs
Idle == [pc |-> "idle", op |-> "none", guid |-> "g1", all |-> FALSE,
         logs |-> {}, name |-> NoRow, ts |-> 0, data |-> NoData,
         dir |-> {}]

NoAnswer == [op |-> "none", guid |-> "g1", status |-> 0, logNumber |-> 0,
             name |-> NoRow, requests |-> <<>>, rows |-> {}]

Busy(g) == \E p \in Procs : procs[p].pc # "idle" /\ procs[p].guid = g
                            /\ procs[p].op # "getUrls"

\* the request slot an arriving request takes
FreeProc == CHOOSE p \in Procs :
               /\ procs[p].pc = "idle"
               /\ \A q \in Procs : q < p => procs[q].pc # "idle"

CanArrive == ~crashed /\ left > 0 /\ \E p \in Procs : procs[p].pc = "idle"

\* first step of a handler that works on the bin's file
FirstStep(op) ==
    IF backend = "sql" THEN "access"
    ELSE IF backend = "legacy" /\ op = "deleteAll" THEN "store"
    ELSE "read"

Answer(op, g, status) == [NoAnswer EXCEPT !.op = op, !.guid = g, !.status = status]

\* a connection not made yet.  History: when it subscribed, since captures
\* of its bin had been stored and at capture requests had arrived.  alive: a
\* keep-alive comment has been written to it; failing: a write to it fails
NoConn == [state |-> "none", guid |-> "g1", since |-> 0, at |-> 0,
           alive |-> FALSE, failing |-> FALSE]

\* the server has started on an empty data directory; n connections will
\* be made
StartedFor(n) ==
    /\ backend \in Backends
    /\ files = [g \in Guids |-> NoFile]
    /\ sseClients = [g \in Guids |-> [present |-> FALSE, list |-> <<>>]]
    /\ conn = [c \in 1..n |-> NoConn]
    /\ received = [c \in 1..n |-> <<>>]
    /\ procs = [p \in Procs |-> Idle]
    /\ used = {}
    /\ clock = 0
    /\ crashed = FALSE
    /\ assigned = [g \in Guids |-> <<>>]
    /\ done = [g \in Guids |-> {}]
    /\ serial = [g \in Guids |-> TRUE]
    /\ lastDone = NoAnswer

Started == StartedFor(NumClients)

Init ==
    /\ Started
    /\ left = MaxRequests

\* ------------------------------------------------------------ bookkeeping
Entry(n, ts) == [logNumber |-> n, timestamp |-> ts]

NoEntry == Entry(0, 0)

Untitled == "Untitled"
NameFalse == "false"            \* app-json.js: const name = false

\* a request for g arrives; it overlaps the requests on g still in flight.
\* The guid of a bin under creation is a uuid only the handler has seen: no
\* request names it before create-url has answered.
Arrive(op, g, rec) ==
    /\ CanArrive
    /\ \A p \in Procs : ~(procs[p].op = "createUrl" /\ procs[p].guid = g)
    /\ used' = used \cup {g}
    /\ procs' = [procs EXCEPT ![FreeProc] = rec]
    /\ left' = left - 1
    /\ serial' = [serial EXCEPT ![g] = @ /\ ~Busy(g)]

\* a change to g was answered 200: r is the request, e the entry it stored
Record(r, e) ==
    /\ done' = [done EXCEPT ![r.guid] = @ \cup {r.op}]
    /\ assigned' = [assigned EXCEPT ![r.guid] =
                       IF r.op = "capture" THEN Append(@, e.logNumber) ELSE @]

\* res.sendStatus / res.json / res.status(..).send: the request is over
Respond(p, ans) ==
    /\ procs' = [procs EXCEPT ![p] = Idle]
    /\ lastDone' = ans

\* reject(err) inside an async handler: Express 4 drops the rejected promise.
\* Depending on the Node version the request then never gets an answer
\* (status 0) or the unhandled rejection ends the process.
Reject(p) ==
    /\ procs' = [procs EXCEPT ![p] = Idle]
    /\ lastDone' = Answer(procs[p].op, procs[p].guid, 0)
    /\ crashed' \in {FALSE, TRUE}

\* the responses registered for g: sseClients[guid], if (sseClients[guid])
Listeners(g) == IF sseClients[g].present THEN sseClients[g].list ELSE <<>>

\* places in the list of g of the connections a write fails on
FailingAt(g) == {i \in 1..Len(Listeners(g)) : conn[Listeners(g)[i]].failing}

\* the connections forEach writes the event to.  A write that fails either
\* reports it later ('error' event, return value false) and the loop goes on,
\* or throws out of forEach: then no listener after it is written to.
Reached(g, throws) ==
    LET list == Listeners(g)
        stop == IF throws /\ FailingAt(g) # {}
                THEN CHOOSE i \in FailingAt(g) : \A j \in FailingAt(g) : i <= j
                ELSE Len(list) + 1
    IN {list[i] : i \in (1..(stop - 1)) \ FailingAt(g)}

\* a wrong loop: starts at the second listener
pushUpdateSkipsFirst(g, entry, throws) ==
    received' = [c \in Clients |->
                    IF c \in Reached(g, throws) /\ c # Listeners(g)[1]
                    THEN Append(received[c], entry)
                    ELSE received[c]]

\* sseClients[guid].forEach(client => client.write(`data: ...`))
pushUpdateToClients(g, entry, throws) ==
    received' = [c \in Clients |->
                    IF c \in Reached(g, throws)
                    THEN Append(received[c], entry)
                    ELSE received[c]]

\* ----------------------------------------------------------- arrivals
\* POST /create-url
CreateUrl(n) ==
    /\ used # Guids
    /\ IF backend = "sql" THEN n # NameFalse ELSE n = NameFalse
    /\ LET g == CHOOSE x \in Guids \ used : TRUE
       IN Arrive("createUrl", g,
                    [Idle EXCEPT !.op = "createUrl", !.guid = g, !.name = n,
                        !.pc = IF backend = "sql" THEN "initDb" ELSE "store"])
    /\ UNCHANGED <<backend, files, sseClients, conn, received, clock,
                   crashed, assigned, done>>
    /\ lastDone' = NoAnswer

\* DELETE /delete-url/:guid
DeleteUrl(g) ==
    /\ Arrive("deleteUrl", g,
              [Idle EXCEPT !.op = "deleteUrl", !.guid = g,
                  !.pc = IF backend = "sql" THEN "access" ELSE "unlink"])
    /\ UNCHANGED <<backend, files, sseClients, conn, received, clock,
                   crashed, assigned, done>>
    /\ lastDone' = NoAnswer

\* GET /get-urls
GetUrls ==
    /\ CanArrive
    /\ procs' = [procs EXCEPT ![FreeProc] =
                    [Idle EXCEPT !.op = "getUrls", !.pc = "readdir"]]
    /\ left' = left - 1
    /\ UNCHANGED <<backend, files, sseClients, conn, received, used, clock,
                   crashed, assigned, done, serial>>
    /\ lastDone' = NoAnswer

\* GET /logs/:guid
GetLogs(g) ==
    /\ Arrive("getLogs", g,
              [Idle EXCEPT !.op = "getLogs", !.guid = g,
                  !.pc = FirstStep("getLogs")])
    /\ UNCHANGED <<backend, files, sseClients, conn, received, clock,
                   crashed, assigned, done>>
    /\ lastDone' = NoAnswer

\* DELETE /logs/:guid/:logNumber
DeleteLog(g, k) ==
    /\ Arrive("deleteLog", g,
              [Idle EXCEPT !.op = "deleteLog", !.guid = g, !.logs = {k},
                  !.pc = FirstStep("deleteLog")])
    /\ UNCHANGED <<backend, files, sseClients, conn, received, clock,
                   crashed, assigned, done>>
    /\ lastDone' = NoAnswer

\* DELETE /logs/:guid with body {logs: [...]}, or with no logs: delete all
DeleteLogs(g, all, logs) ==
    /\ all => logs = {}
    /\ Arrive("deleteLogs", g,
              [Idle EXCEPT !.op = "deleteLogs", !.guid = g, !.all = all,
                  !.logs = logs,
                  !.pc = FirstStep(IF all THEN "deleteAll" ELSE "deleteLogs")])
    /\ UNCHANGED <<backend, files, sseClients, conn, received, clock,
                   crashed, assigned, done>>
    /\ lastDone' = NoAnswer

\* POST /rename-url/:guid (the legacy server has no such route)
RenameUrl(g, n) ==
    /\ backend # "legacy"
    /\ Arrive("renameUrl", g,
              [Idle EXCEPT !.op = "renameUrl", !.guid = g, !.name = n,
                  !.pc = FirstStep("renameUrl")])
    /\ UNCHANGED <<backend, files, sseClients, conn, received, clock,
                   crashed, assigned, done>>
    /\ lastDone' = NoAnswer

\* ALL /:guid/:subPath*?  -- requestData gets its timestamp here
Capture(g) ==
    /\ clock < MaxCaptures
    /\ clock' = clock + 1
    /\ Arrive("capture", g,
              [Idle EXCEPT !.op = "capture", !.guid = g, !.ts = clock + 1,
                  !.pc = FirstStep("capture")])
    /\ UNCHANGED <<backend, files, sseClients, conn, received,
                   crashed, assigned, done>>
    /\ lastDone' = NoAnswer

\* --------------------------------------------------------------- steps
At(p, pc) == ~crashed /\ procs[p].pc = pc

Goto(p, pc) == procs' = [procs EXCEPT ![p].pc = pc]

\* sql: await fs.access(dbPath) -- a missing file answers 404
FsAccess(p) ==
    /\ At(p, "access")
    /\ LET r == procs[p]
       IN IF files[r.guid].exists
          THEN /\ Goto(p, IF r.op = "deleteUrl" THEN "unlink" ELSE "initDb")
               /\ lastDone' = NoAnswer
          ELSE Respond(p, Answer(r.op, r.guid, 404))
    /\ UNCHANGED <<left, backend, files, sseClients, conn, received, used, clock,
                   crashed, assigned, done, serial>>

\* sql: await initDb(guid) -- opens (and so creates) the file, creates tables
InitDb(p) ==
    /\ At(p, "initDb")
    /\ files' = [files EXCEPT ![procs[p].guid] = CreateTables(@)]
    /\ Goto(p, "store")
    /\ UNCHANGED <<left, backend, sseClients, conn, received, used, clock,
                   crashed, assigned, done, serial>>
    /\ lastDone' = NoAnswer

\* ORDER BY logNumber DESC
RECURSIVE SortDesc(_)
SortDesc(requests) ==
    IF requests = <<>> THEN <<>>
    ELSE LET m == MaxOf(LogNumbers(requests))
         IN SelectSeq(requests, LAMBDA e : e.logNumber = m)
            \o SortDesc(SelectSeq(requests, LAMBDA e : e.logNumber # m))

\* const name = row ? row.name : 'Untitled'
RowName(f) == IF f.name = NoRow THEN Untitled ELSE f.name

\* GET /logs/:guid answers 200: res.json(data) of the flat-file servers,
\* res.json({ name, requests }) of the relational one
LogsAnswer(g, f) ==
    [Answer("getLogs", g, 200) EXCEPT
        !.name = IF backend = "sql" THEN RowName(f) ELSE f.name,
        !.requests = IF backend = "sql" THEN SortDesc(f.requests)
                     ELSE f.requests]

\* what a handler of the flat-file servers does with the parsed document
\* before it writes it back
Modify(r, data) ==
    CASE r.op = "capture" ->
            [data EXCEPT !.requests =
                Append(@, Entry(NextLogNumber(data.requests), r.ts))]
      [] r.op \in {"deleteLog", "deleteLogs"} ->
            [data EXCEPT !.requests =
                IF r.all THEN <<>> ELSE FilterLogs(@, r.logs)]
      [] r.op = "renameUrl" -> [data EXCEPT !.name = r.name]
      [] OTHER -> data

\* status of a flat-file handler whose readFile fails with ENOENT
ReadErrorStatus(op) ==
    IF op \in {"capture", "getLogs"} THEN 404 ELSE 500

\* json, legacy: await fs.readFile(filePath) and what follows up to the
\* next await
ReadFile(p) ==
    /\ At(p, "read")
    /\ LET r == procs[p]
           f == files[r.guid]
       IN IF ~f.exists
          THEN IF backend = "legacy" /\ r.op = "capture"
               THEN \* "If the file doesn't exist, we start with an empty array"
                    /\ procs' = [procs EXCEPT ![p].pc = "store",
                                    ![p].data = Modify(r, NoData)]
                    /\ lastDone' = NoAnswer
               ELSE Respond(p, Answer(r.op, r.guid, ReadErrorStatus(r.op)))
          ELSE IF r.op = "getLogs"
               THEN Respond(p, LogsAnswer(r.guid, f))
               ELSE /\ procs' = [procs EXCEPT ![p].pc = "store",
                                    ![p].data = Modify(r, ParseFile(f))]
                    /\ lastDone' = NoAnswer
    /\ UNCHANGED <<left, backend, files, sseClients, conn, received, used, clock,
                   crashed, assigned, done, serial>>

\* a wrong statement: reports success and inserts nothing
InsertRequestLost(f, ts) == f

\* the row the relational server inserts, or no row when the file was
\* replaced by an empty one since initDb
InsertRequest(f, ts) ==
    [f EXCEPT !.requests = Append(@, Entry(AutoIncrement(f), ts)),
              !.seq = AutoIncrement(f)]

\* logRequest once the entry e is stored: the push to the SSE listeners, then
\* the answer.  Nothing in logRequest catches a write that throws: in app.js
\* it leaves the sqlite callback uncaught, in app-json.js it rejects the
\* promise the route awaits without a try, in the legacy server the route's
\* catch answers 500.
Publish(p, e, throws) ==
    LET r == procs[p]
        g == r.guid
    IN /\ pushUpdateToClients(g, e, throws)
       /\ IF ~throws
          THEN /\ Record(r, e)
               /\ Respond(p, [Answer("capture", g, 200) EXCEPT
                                 !.logNumber = e.logNumber])
               /\ UNCHANGED crashed
          ELSE /\ UNCHANGED <<assigned, done>>
               /\ CASE backend = "sql" ->
                         /\ Respond(p, Answer("capture", g, 0))
                         /\ crashed' = TRUE
                    [] backend = "json" -> Reject(p)
                    [] OTHER -> /\ Respond(p, Answer("capture", g, 500))
                                /\ UNCHANGED crashed

\* logRequest: the INSERT (sql) or the writeFile (json, legacy), then the
\* push to the SSE listeners and the answer
LogRequestStore(p) ==
    /\ At(p, "store") /\ procs[p].op = "capture"
    /\ LET r == procs[p]
           g == r.guid
           f == OpenDatabase(files[g])
       IN IF backend = "sql"
          THEN IF ~f.tables
               THEN /\ files' = [files EXCEPT ![g] = f]
                    /\ Respond(p, Answer("capture", g, 500))
                    /\ UNCHANGED <<received, assigned, done, crashed>>
               ELSE /\ files' = [files EXCEPT ![g] = InsertRequest(f, r.ts)]
                    /\ \E throws \in BOOLEAN :
                          /\ throws => FailingAt(g) # {}
                          /\ Publish(p, Entry(AutoIncrement(f), r.ts), throws)
          ELSE /\ files' = [files EXCEPT ![g] = WriteFile(r.data)]
               /\ \E throws \in BOOLEAN :
                     /\ throws => FailingAt(g) # {}
                     /\ Publish(p, r.data.requests[Len(r.data.requests)],
                                throws)
    /\ UNCHANGED <<left, backend, sseClients, conn, used, clock, serial>>

\* the statement of an entry-deleting handler of the relational server, or
\* the document the flat-file handler writes back
DeleteCommit(p) ==
    LET r == procs[p]
        g == r.guid
        f == OpenDatabase(files[g])
    IN IF backend = "sql"
       THEN IF ~f.tables
            THEN /\ files' = [files EXCEPT ![g] = f]
                 /\ Reject(p)
                 /\ UNCHANGED <<assigned, done>>
            ELSE /\ files' = [files EXCEPT ![g].requests =
                                 IF r.all THEN <<>> ELSE FilterLogs(@, r.logs)]
                 /\ Respond(p, Answer(r.op, g, 200))
                 /\ Record(r, NoEntry)
                 /\ UNCHANGED crashed
       ELSE /\ files' = [files EXCEPT ![g] = WriteFile(r.data)]
            /\ Respond(p, Answer(r.op, g, 200))
            /\ Record(r, NoEntry)
            /\ UNCHANGED crashed

\* DELETE /logs/:guid/:logNumber: DELETE ... WHERE logNumber = ? / writeFile
DeleteLogStore(p) ==
    /\ At(p, "store") /\ procs[p].op = "deleteLog"
    /\ DeleteCommit(p)
    /\ UNCHANGED <<left, backend, sseClients, conn, received, used, clock,
                   serial>>

\* DELETE /logs/:guid: DELETE FROM requests [WHERE logNumber IN ..] / writeFile
DeleteLogsStore(p) ==
    /\ At(p, "store") /\ procs[p].op = "deleteLogs"
    /\ DeleteCommit(p)
    /\ UNCHANGED <<left, backend, sseClients, conn, received, used, clock,
                   serial>>

\* UPDATE metadata SET name = ?: every row of metadata, so none if none
UpdateName(f, n) == IF f.name = NoRow THEN f ELSE [f EXCEPT !.name = n]

\* POST /rename-url/:guid: the UPDATE (sql) or the writeFile (json)
RenameStore(p) ==
    /\ At(p, "store") /\ procs[p].op = "renameUrl"
    /\ LET r == procs[p]
           g == r.guid
           f == OpenDatabase(files[g])
       IN IF backend = "sql"
          THEN IF ~f.tables
               THEN /\ files' = [files EXCEPT ![g] = f]
                    /\ Reject(p)
                    /\ UNCHANGED <<assigned, done>>
               ELSE /\ files' = [files EXCEPT ![g] = UpdateName(f, r.name)]
                    /\ Respond(p, Answer(r.op, g, 200))
                    /\ Record(r, NoEntry)
                    /\ UNCHANGED crashed
          ELSE /\ files' = [files EXCEPT ![g] = WriteFile(r.data)]
               /\ Respond(p, Answer(r.op, g, 200))
               /\ Record(r, NoEntry)
               /\ UNCHANGED crashed
    /\ UNCHANGED <<left, backend, sseClients, conn, received, used, clock,
                   serial>>

\* POST /create-url: INSERT INTO metadata (sql) or the writeFile of the
\* empty document (json: {name: false, requests: []}, legacy: [])
CreateStore(p) ==
    /\ At(p, "store") /\ procs[p].op = "createUrl"
    /\ LET r == procs[p]
           g == r.guid
           f == OpenDatabase(files[g])
       IN IF backend = "sql"
          THEN IF ~f.tables
               THEN /\ files' = [files EXCEPT ![g] = f]
                    /\ Reject(p)
                    /\ UNCHANGED <<assigned, done>>
               ELSE /\ files' = [files EXCEPT ![g] = [f EXCEPT !.name = r.name]]
                    /\ Respond(p, [Answer(r.op, g, 200) EXCEPT !.name = r.name])
                    /\ Record(r, NoEntry)
                    /\ UNCHANGED crashed
          ELSE /\ files' = [files EXCEPT ![g] =
                               WriteFile([name |-> IF backend = "json"
                                                   THEN NameFalse ELSE NoRow,
                                          requests |-> <<>>])]
               /\ Respond(p, [Answer(r.op, g, 200) EXCEPT !.name = r.name])
               /\ Record(r, NoEntry)
               /\ UNCHANGED crashed
    /\ UNCHANGED <<left, backend, sseClients, conn, received, used, clock,
                   serial>>

\* sql GET /logs/:guid: SELECT name, SELECT * ... ORDER BY logNumber DESC
SelectLogs(p) ==
    /\ At(p, "store") /\ procs[p].op = "getLogs"
    /\ LET r == procs[p]
           g == r.guid
           f == OpenDatabase(files[g])
       IN /\ files' = [files EXCEPT ![g] = f]
          /\ IF ~f.tables
             THEN Reject(p)
             ELSE /\ Respond(p, LogsAnswer(g, f))
                  /\ UNCHANGED crashed
    /\ UNCHANGED <<left, backend, sseClients, conn, received, used, clock,
                   assigned, done, serial>>

\* DELETE /delete-url/:guid: await fs.unlink, delete sseClients[guid], 200;
\* a missing file answers 404
Unlink(p) ==
    /\ At(p, "unlink")
    /\ LET g == procs[p].guid
       IN IF files[g].exists
          THEN /\ files' = [files EXCEPT ![g] = NoFile]
               /\ sseClients' = [sseClients EXCEPT
                                    ![g] = [present |-> FALSE, list |-> <<>>]]
               /\ Respond(p, Answer("deleteUrl", g, 200))
               /\ Record(procs[p], NoEntry)
          ELSE /\ Respond(p, Answer("deleteUrl", g, 404))
               /\ UNCHANGED <<files, sseClients, assigned, done>>
    /\ UNCHANGED <<left, backend, conn, received, used, clock, crashed, serial>>

\* GET /get-urls: await fs.readdir(DATA_DIR)
Readdir(p) ==
    /\ At(p, "readdir")
    /\ procs' = [procs EXCEPT ![p].pc = "scan",
                    ![p].dir = {g \in Guids : files[g].exists}]
    /\ UNCHANGED <<left, backend, files, sseClients, conn, received, used, clock,
                   crashed, assigned, done, serial>>
    /\ lastDone' = NoAnswer

TimestampsOf(requests) == {requests[i].timestamp : i \in 1..Len(requests)}

MinOf(S) == IF S = {} THEN 0 ELSE CHOOSE m \in S : \A x \in S : m <= x

\* one row of the summary; a null time is 0.  The legacy server reports the
\* guid and the file times only (requestCount -1: no such field).
UrlRow(g, f) ==
    CASE backend = "sql" ->
            [guid |-> g, name |-> RowName(f), requestCount |-> Len(f.requests),
             firstRequestTime |-> MinOf(TimestampsOf(f.requests)),
             lastRequestTime |-> MaxOf(TimestampsOf(f.requests))]
      [] backend = "json" ->
            [guid |-> g,
             name |-> IF f.name = NameFalse THEN Untitled ELSE f.name,
             requestCount |-> Len(f.requests),
             firstRequestTime |-> IF Len(f.requests) > 0
                                  THEN f.requests[1].timestamp ELSE 0,
             lastRequestTime |-> IF Len(f.requests) > 0
                                 THEN f.requests[Len(f.requests)].timestamp
                                 ELSE 0]
      [] OTHER ->
            [guid |-> g, name |-> NoRow, requestCount |-> 0 - 1,
             firstRequestTime |-> 0, lastRequestTime |-> 0]

\* GET /get-urls: Promise.all over the files readdir listed.  The relational
\* server opens each as a database (creating a file deleted meanwhile); a file
\* that cannot be read makes the whole request answer 500.
ScanFiles(p) ==
    /\ At(p, "scan")
    /\ LET dir == procs[p].dir
           opened == [g \in Guids |->
                        IF backend = "sql" /\ g \in dir
                        THEN OpenDatabase(files[g]) ELSE files[g]]
           bad == {g \in dir : IF backend = "sql" THEN ~opened[g].tables
                                                  ELSE ~files[g].exists}
       IN /\ files' = opened
          /\ IF bad # {}
             THEN Respond(p, Answer("getUrls", "g1", 500))
             ELSE Respond(p, [Answer("getUrls", "g1", 200) EXCEPT
                                 !.rows = {UrlRow(g, opened[g]) : g \in dir}])
    /\ UNCHANGED <<left, backend, sseClients, conn, received, used, clock,
                   crashed, assigned, done, serial>>

\* ------------------------------------------------------------ live stream
\* GET /logs-stream/:guid: sseClients[guid].push(res).  As for a request, no
\* client names the guid of a bin still under creation.
LogsStream(g) ==
    /\ ~crashed
    /\ \A p \in Procs : ~(procs[p].op = "createUrl" /\ procs[p].guid = g)
    /\ \E c \in Clients :
          /\ conn[c].state = "none"
          /\ \A d \in Clients : d < c => conn[d].state # "none"
          /\ conn' = [conn EXCEPT ![c] =
                          [NoConn EXCEPT !.state = "open", !.guid = g,
                                         !.since = Len(assigned[g]),
                                         !.at = clock]]
          /\ sseClients' = [sseClients EXCEPT
                               ![g] = [present |-> TRUE,
                                       list |-> Append(@.list, c)]]
    /\ used' = used \cup {g}
    /\ UNCHANGED <<left, backend, files, received, procs, clock, crashed,
                   assigned, done, serial>>
    /\ lastDone' = NoAnswer

\* a wrong close handler: leaves the response in the registry
CloseStreamKeeps(c) ==
    /\ ~crashed
    /\ conn[c].state = "open"
    /\ conn' = [conn EXCEPT ![c].state = "closed"]
    /\ UNCHANGED <<left, backend, files, sseClients, received, procs, used,
                   clock, crashed, assigned, done, serial>>
    /\ lastDone' = NoAnswer

\* req.on('close'): sseClients[guid] = sseClients[guid].filter(...).  After
\* delete-url removed sseClients[guid] the filter is called on undefined: a
\* TypeError nobody catches.
CloseStream(c) ==
    /\ ~crashed
    /\ conn[c].state = "open"
    /\ conn' = [conn EXCEPT ![c].state = "closed"]
    /\ LET g == conn[c].guid
       IN IF sseClients[g].present
          THEN /\ sseClients' = [sseClients EXCEPT ![g].list =
                                    SelectSeq(@, LAMBDA d : d # c)]
               /\ UNCHANGED crashed
          ELSE /\ crashed' = TRUE
               /\ UNCHANGED sseClients
    /\ UNCHANGED <<left, backend, files, received, procs, used, clock,
                   assigned, done, serial>>
    /\ lastDone' = NoAnswer

\* app.js: setInterval(() => res.write(': keep-alive\n\n'), 15000).  Only
\* the 'close' handler clears the timer; the flat-file servers set none.
KeepAlive(c) ==
    /\ ~crashed
    /\ backend = "sql"
    /\ conn[c].state = "open"
    /\ ~conn[c].alive
    /\ conn' = [conn EXCEPT ![c].alive = TRUE]
    /\ UNCHANGED <<left, backend, files, sseClients, received, procs, used,
                   clock, crashed, assigned, done, serial>>
    /\ lastDone' = NoAnswer

\* ----------------------------------------------------------------- faults
\* what a handler answers when the storage call it waits for fails for a
\* reason other than a missing file (EACCES, EIO, SQLITE_IOERR ...); 0 where
\* nothing catches the error.  sql: fs.access and fs.unlink sit in a catch
\* that answers 404, get-urls in one that answers 500, the INSERT of
\* logRequest resolves {status: 500}, every other callback calls reject(err).
\* json, legacy: delete-url answers 404 and GET /logs 404 on any error,
\* create-url awaits writeFile without a try, the other handlers answer 500;
\* the legacy logRequest returns from a failed writeFile and its route
\* answers 200.
FaultStatus(r) ==
    CASE backend = "sql" /\ r.pc \in {"access", "unlink"} -> 404
      [] backend = "sql" /\ r.pc \in {"readdir", "scan"} -> 500
      [] backend = "sql" /\ r.pc = "store" /\ r.op = "capture" -> 500
      [] backend = "sql" -> 0
      [] r.pc = "unlink" -> 404
      [] r.op = "getLogs" -> 404
      [] r.op = "createUrl" -> 0
      [] r.op = "capture" /\ backend = "legacy" -> 200
      [] OTHER -> 500

\* the storage call request p waits for fails; the file stays as it is.  The
\* legacy logRequest logs a failed read and goes on with an empty array.
StorageFault(p) ==
    /\ ~crashed
    /\ procs[p].pc # "idle"
    /\ LET r == procs[p]
       IN IF backend = "legacy" /\ r.op = "capture" /\ r.pc = "read"
          THEN /\ procs' = [procs EXCEPT ![p].pc = "store",
                                         ![p].data = Modify(r, NoData)]
               /\ lastDone' = NoAnswer
               /\ UNCHANGED crashed
          ELSE IF FaultStatus(r) = 0
               THEN Reject(p)
               ELSE /\ Respond(p, Answer(r.op, r.guid, FaultStatus(r)))
                    /\ UNCHANGED crashed
    /\ UNCHANGED <<left, backend, files, sseClients, conn, received, used,
                   clock, assigned, done, serial>>

\* the socket of an open connection breaks: from now on res.write to it
\* fails, until the 'close' event is handled
SocketError(c) ==
    /\ ~crashed
    /\ conn[c].state = "open"
    /\ ~conn[c].failing
    /\ conn' = [conn EXCEPT ![c].failing = TRUE]
    /\ UNCHANGED <<left, backend, files, sseClients, received, procs, used,
                   clock, crashed, assigned, done, serial>>
    /\ lastDone' = NoAnswer

\* ---------------------------------------------------------- specification
\* the requests that make, fill and remove bins, addressed to the guids of G
Traffic(G) ==
    \/ \E n \in ReqNames \cup {Untitled, NameFalse} : CreateUrl(n)
    \/ \E g \in G : DeleteUrl(g)
    \/ \E g \in G : Capture(g)

\* the requests of the viewer, addressed to the guids of G
Admin(G) ==
    \/ GetUrls
    \/ \E g \in G : GetLogs(g)
    \/ \E g \in G, k \in 1..MaxLogArg : DeleteLog(g, k)
    \/ \E g \in G, all \in BOOLEAN, logs \in LogSets : DeleteLogs(g, all, logs)
    \/ \E g \in G, n \in ReqNames : RenameUrl(g, n)

\* the requests a client sends, addressed to the guids of G
Requests(G) == Traffic(G) \/ Admin(G)

\* the steps of the create-url, delete-url and capture requests in flight
TrafficSteps ==
    \/ \E p \in Procs : FsAccess(p)
    \/ \E p \in Procs : InitDb(p)
    \/ \E p \in Procs : ReadFile(p)
    \/ \E p \in Procs : LogRequestStore(p)
    \/ \E p \in Procs : CreateStore(p)
    \/ \E p \in Procs : Unlink(p)

\* the steps only the viewer's requests take
AdminSteps ==
    \/ \E p \in Procs : DeleteLogStore(p)
    \/ \E p \in Procs : DeleteLogsStore(p)
    \/ \E p \in Procs : RenameStore(p)
    \/ \E p \in Procs : SelectLogs(p)
    \/ \E p \in Procs : Readdir(p)
    \/ \E p \in Procs : ScanFiles(p)

\* the steps of the requests in flight
Steps == TrafficSteps \/ AdminSteps

\* the live-stream connections, subscribing to the guids of G
Streams(G) ==
    \/ \E g \in G : LogsStream(g)
    \/ \E c \in Clients : CloseStream(c)
    \/ \E c \in Clients : KeepAlive(c)

\* the whole server: every route, every guid, live streams
Next == Requests(Guids) \/ Steps \/ Streams(Guids)

Spec == Init /\ [][Next]_vars

\* the store alone: longer runs of requests that address one bin.  The live
\* stream handlers write neither files nor procs, so leaving them out removes
\* no value the stored documents can take.
StoreInit ==
    /\ Started
    /\ left = StoreRequests

StoreNext == Requests({"g1"}) \/ Steps

StoreSpec == StoreInit /\ [][StoreNext]_vars

\* one bin and its listeners: bins are made, filled and removed while
\* connections subscribe, receive keep-alives and disconnect.  The viewer's
\* requests, which write to no connection and to no registry, are left out.
StreamInit ==
    /\ Started
    /\ left = StreamRequests

StreamNext == Traffic({"g1"}) \/ TrafficSteps \/ Streams({"g1"})

StreamSpec == StreamInit /\ [][StreamNext]_vars

\* the server on a failing disk and failing sockets: the requests on one bin,
\* two connections, and storage calls and socket writes that may fail
Faults ==
    \/ \E p \in Procs : StorageFault(p)
    \/ \E c \in Clients : SocketError(c)

FaultInit ==
    /\ StartedFor(FaultClients)
    /\ left = FaultRequests

FaultNext == Requests({"g1"}) \/ Steps \/ Streams({"g1"}) \/ Faults

FaultSpec == FaultInit /\ [][FaultNext]_vars

\* ------------------------------------------------------------------ claims
Stored(g) == files[g].requests

EntryDeletes == {"deleteLog", "deleteLogs"}

Distinct(seq) == \A i, j \in 1..Len(seq) : i # j => seq[i] # seq[j]

Increasing(seq) == \A i, j \in 1..Len(seq) : i < j => seq[i] < seq[j]

StoredNumbers(g) == [i \in 1..Len(Stored(g)) |-> Stored(g)[i].logNumber]

StoredTimes(g) == [i \in 1..Len(Stored(g)) |-> Stored(g)[i].timestamp]

\* C1: in every bin, after any sequence of captures and entry deletions run
\* one after another, no two stored entries carry the same logNumber and the
\* log numbers given out are strictly increasing, deleted entries included.
C1_UniqueIncreasing ==
    \A g \in Guids :
        (/\ backend \in {"sql", "json"}
         /\ serial[g]
         /\ done[g] \subseteq {"createUrl", "capture"} \cup EntryDeletes)
        => /\ Distinct(StoredNumbers(g))
           /\ Increasing(assigned[g])

\* C2: N captures to a freshly created bin, run one after another with no
\* deletion, get the log numbers 1, 2, ..., N in call order, and the bin
\* stores them in that order.
C2_FreshBinCountsFromOne ==
    \A g \in Guids :
        (/\ backend \in {"sql", "json"}
         /\ serial[g]
         /\ done[g] \cap (EntryDeletes \cup {"deleteUrl"}) = {})
        => /\ assigned[g] = [i \in 1..Len(assigned[g]) |-> i]
           /\ StoredNumbers(g) = assigned[g]
           /\ Increasing(StoredTimes(g))

\* three captures in a row on a fresh bin, the last one just answered
C2_Witness ==
    \E g \in Guids :
        /\ backend \in {"sql", "json"}
        /\ serial[g]
        /\ done[g] = {"createUrl", "capture"}
        /\ Len(assigned[g]) = MaxCaptures
        /\ lastDone.op = "capture" /\ lastDone.status = 200

\* C3: a capture that answers 200, after any sequence of captures and
\* deletions run one after another, gets the number one greater than the
\* greatest logNumber stored in the bin at that moment, or 1 if none is stored.
C3_NextIsMaxPlusOne ==
    [][\A p \in Procs :
          (/\ LogRequestStore(p)
           /\ backend \in {"sql", "json"}
           /\ serial[procs[p].guid]
           /\ lastDone'.status = 200)
          => lastDone'.logNumber =
                 MaxOf(LogNumbers(Stored(procs[p].guid))) + 1]_vars

\* C4: whatever the interleaving of the captures to a bin, the captures that
\* answered 200 got pairwise distinct numbers and each of them has its entry
\* in the stored log.
C4_ConcurrentCapturesAllStored ==
    \A g \in Guids :
        (/\ backend \in {"sql", "json"}
         /\ done[g] \subseteq {"createUrl", "capture"})
        => /\ Distinct(assigned[g])
           /\ Len(Stored(g)) = Len(assigned[g])
           /\ Distinct(StoredNumbers(g))

\* C5: flat-file server, a bin whose answered changes are captures and
\* renames, in any interleaving.  Every serial order of k captures and of
\* renames to one name ends with k entries numbered 1..k, and with the new
\* name if a rename was answered; so must the stored document once no request
\* on the bin is in flight.
C5_FlatFileSerialOutcome ==
    \A g \in Guids :
        (/\ backend = "json"
         /\ "createUrl" \in done[g]
         /\ done[g] \subseteq {"createUrl", "capture", "renameUrl"}
         /\ ~Busy(g))
        => /\ Len(Stored(g)) = Len(assigned[g])
           /\ {StoredNumbers(g)[i] : i \in 1..Len(Stored(g))}
                  = 1..Len(assigned[g])
           /\ "renameUrl" \in done[g] => files[g].name \in ReqNames

\* C6: the step a capture takes on finding that its bin does not exist
\* answers 404 and leaves the files, the stored entries and what every
\* subscriber has received as they were.
C6_CaptureUnknownBin ==
    [][\A p \in Procs :
          (/\ procs[p].op = "capture"
           /\ procs[p].pc \in {"access", "read"}
           /\ ~files[procs[p].guid].exists
           /\ procs'[p] # procs[p])
          => /\ lastDone' = Answer("capture", procs[p].guid, 404)
             /\ files' = files
             /\ received' = received
             /\ assigned' = assigned]_vars

\* C7: a deletion by log number (one number or a set) that answers 200 on an
\* existing bin leaves exactly the entries stored just before it whose
\* logNumber is not in the set, unchanged and in their order.
C7_DeleteByNumberExact ==
    [][\A p \in Procs :
          (/\ DeleteLogStore(p) \/ (DeleteLogsStore(p) /\ ~procs[p].all)
           /\ backend \in {"sql", "json"}
           /\ files[procs[p].guid].exists
           /\ lastDone'.status = 200)
          => /\ files'[procs[p].guid].exists
             /\ files'[procs[p].guid].requests =
                    FilterLogs(Stored(procs[p].guid), procs[p].logs)]_vars

\* C8: a delete-all that answers 200 on an existing bin leaves the bin
\* existing with no entry and the name it had; list-bins reports it with
\* count 0 and fetch-log answers 200 with an empty list.
C8_DeleteAllKeepsBin ==
    [][\A p \in Procs :
          (/\ DeleteLogsStore(p) /\ procs[p].all
           /\ backend \in {"sql", "json"}
           /\ files[procs[p].guid].exists
           /\ lastDone'.status = 200)
          => LET g == procs[p].guid
             IN /\ files'[g].exists
                /\ files'[g].requests = <<>>
                /\ files'[g].name = files[g].name
                /\ UrlRow(g, files'[g]).requestCount = 0
                /\ UrlRow(g, files'[g]).name = UrlRow(g, files[g]).name
                /\ LogsAnswer(g, files'[g]).status = 200
                /\ LogsAnswer(g, files'[g]).requests = <<>>]_vars

\* C9: a rename that answers 200 on an existing bin leaves the stored
\* entries, their numbers and their order as they were just before it, and
\* touches no other bin.
C9_RenameOnlyName ==
    [][\A p \in Procs :
          (/\ RenameStore(p)
           /\ files[procs[p].guid].exists
           /\ lastDone'.status = 200)
          => LET g == procs[p].guid
             IN /\ files'[g].exists
                /\ files'[g].requests = files[g].requests
                /\ \A h \in Guids \ {g} : files'[h] = files[h]]_vars

\* C10: once a delete-bin of the relational or the current flat-file server
\* has answered 200 the bin's file is gone for good (no list-bins row, no
\* entries, no name: these servers never hand the id out again), and a
\* delete-bin that finds no file answers 404 and changes no file and no
\* subscription.
C10_DeleteBinRemoves ==
    [][/\ \A g \in Guids :
             (backend \in {"sql", "json"} /\ "deleteUrl" \in done'[g])
             => files'[g] = NoFile
       /\ \A p \in Procs :
             (/\ procs[p].op = "deleteUrl"
              /\ ~files[procs[p].guid].exists
              /\ procs'[p] # procs[p])
             => /\ lastDone' = Answer("deleteUrl", procs[p].guid, 404)
                /\ files' = files
                /\ sseClients' = sseClients]_vars

\* c is in the registry of the bin it subscribed to
Registered(c) ==
    \E i \in 1..Len(Listeners(conn[c].guid)) : Listeners(conn[c].guid)[i] = c

\* no handler is in flight: the server has nothing left to do for a request
Quiet == \A p \in Procs : procs[p].pc = "idle"

\* C11: a connection that was open for a bin when delete-url removed the bin
\* (the server has dropped it from the registry) has been closed by the time
\* the server has no request left in flight; the client need not disconnect.
C11_DeletedBinClosesStreams ==
    \A c \in Clients :
        (/\ Quiet
         /\ "deleteUrl" \in done[conn[c].guid]
         /\ conn[c].state # "none"
         /\ ~Registered(c))
        => conn[c].state = "closed"

\* the log numbers of the events written to connection c, in order
EventNumbers(c) == [i \in 1..Len(received[c]) |-> received[c][i].logNumber]

\* the log numbers given out in the bin of c since c subscribed, in order
AssignedSince(c) ==
    SubSeq(assigned[conn[c].guid], conn[c].since + 1,
           Len(assigned[conn[c].guid]))

\* the events of an open, registered connection are those of the captures
\* stored since it subscribed, one each, in the order they were stored
InOrder(c) ==
    (conn[c].state = "open" /\ Registered(c)) => EventNumbers(c) = AssignedSince(c)

Publishes(p) ==
    /\ LogRequestStore(p)
    /\ backend = "sql" => files[procs[p].guid].tables

\* the entry it stores
PublishedEntry(p) ==
    IF backend = "sql"
    THEN Entry(AutoIncrement(files[procs[p].guid]), procs[p].ts)
    ELSE procs[p].data.requests[Len(procs[p].data.requests)]

\* C13: when logRequest publishes an entry to a bin with two or more
\* registered subscribers and the write to exactly one of them fails, every
\* other registered subscriber receives the entry, the failing one is no
\* longer in the registry afterwards, and the capture answers 200.
C13_FailedSendIsolated ==
    [][\A p \in Procs :
          LET g == procs[p].guid
              list == Listeners(g)
          IN (/\ Publishes(p)
              /\ Len(list) >= 2
              /\ Cardinality(FailingAt(g)) = 1)
             => /\ lastDone'.status = 200
                /\ \A i \in (1..Len(list)) \ FailingAt(g) :
                      received'[list[i]] =
                         Append(received[list[i]], PublishedEntry(p))
                /\ \A i \in FailingAt(g) : ~Registered(list[i])']_vars

\* C14: GET /logs/:guid of the relational and of the flat-file server
\* answers the entries of an existing bin newest first: each entry of the
\* answer has a larger logNumber than the one after it.  Stated for bins whose
\* requests never overlapped.
C14_LogsNewestFirst ==
    (/\ backend \in {"sql", "json"}
     /\ lastDone.op = "getLogs"
     /\ lastDone.status = 200
     /\ serial[lastDone.guid])
    => \A i, j \in 1..Len(lastDone.requests) :
          i < j => lastDone.requests[i].logNumber > lastDone.requests[j].logNumber

\* C15: every request is answered.  A handler is the only code that answers
\* its request, so the claim needs that no handler comes to its end (on a
\* path where a storage call succeeded or on one where it reported an error)
\* without having sent a response.
C15_NoHandlerEndsUnanswered ==
    [][\A p \in Procs :
          (procs[p].pc # "idle" /\ procs'[p].pc = "idle")
          => lastDone'.status # 0]_vars

\* C16: when a storage call of a capture fails for a reason other than a
\* missing file, on a bin that holds entries, the capture ends there with
\* 500, the files are left as they were and no subscriber receives an event.
C16_FailedCaptureAnswers500 ==
    [][\A p \in Procs :
          (/\ StorageFault(p)
           /\ procs[p].op = "capture"
           /\ files[procs[p].guid].exists
           /\ Stored(procs[p].guid) # <<>>)
          => /\ procs'[p].pc = "idle"
             /\ lastDone'.status = 500
             /\ files' = files
             /\ received' = received]_vars

\* C17: a rename, delete-one-entry or delete-entries request for a bin that
\* no answered request has made or changed, and whose file does not exist
\* when the handler takes its last step, is answered 404, and no file exists
\* for the bin afterwards.
C17_MissingBinIs404 ==
    [][\A p \in Procs :
          (/\ procs[p].op \in {"renameUrl", "deleteLog", "deleteLogs"}
           /\ procs[p].pc # "idle"
           /\ procs'[p].pc = "idle"
           /\ done[procs[p].guid] = {}
           /\ ~files[procs[p].guid].exists)
          => /\ lastDone'.status = 404
             /\ ~files'[procs[p].guid].exists]_vars

\* C18: each row GET /get-urls of the relational and of the flat-file server
\* answers is the row of an existing bin: its requestCount is the number of
\* entries stored in the bin, its firstRequestTime and lastRequestTime are the
\* smallest and the largest timestamp stored, and null (0) when the bin holds
\* no entry.
C18_RowsMatchStore ==
    (/\ backend \in {"sql", "json"}
     /\ lastDone.op = "getUrls"
     /\ lastDone.status = 200)
    => \A row \in lastDone.rows :
          /\ files[row.guid].exists
          /\ row.requestCount = Len(Stored(row.guid))
          /\ row.firstRequestTime = MinOf(TimestampsOf(Stored(row.guid)))
          /\ row.lastRequestTime = MaxOf(TimestampsOf(Stored(row.guid)))

\* C19: in the relational and the current flat-file server, once delete-url
\* has answered 200 for a bin and its file is gone, no step of any request
\* (one that arrives later or one that was in flight) makes a file for that
\* bin exist again.
C19_NoStorageAfterDelete ==
    [][\A g \in Guids :
          (/\ backend \in {"sql", "json"}
           /\ "deleteUrl" \in done[g]
           /\ ~files[g].exists)
          => ~files'[g].exists]_vars

\* the server has dropped connection c from the registry: its client
\* disconnected or its bin was deleted
Closed(c) == conn[c].state # "none" /\ ~Registered(c)

\* C20: once a connection is out of the registry the server writes nothing
\* more to it, neither an event nor a keep-alive comment, and it never comes
\* back into the registry.
C20_ClosedGetsNoWrite ==
    [][\A c \in Clients :
          Closed(c) => /\ ~KeepAlive(c)
                       /\ received'[c] = received[c]
                       /\ Closed(c)']_vars

\* C21: when a connection closes whose bin has no subscriber set left in the
\* registry (delete-url removed it), the close handler ends without an
\* error and the registry stays as it was.
C21_CloseAfterDeleteIsNoOp ==
    [][\A c \in Clients :
          (CloseStream(c) /\ ~sseClients[conn[c].guid].present)
          => /\ ~crashed'
             /\ sseClients' = sseClients]_vars

\* C22: the data events a connection of the relational or of the flat-file
\* server has received carry strictly increasing logNumbers, however the
\* captures to its bin interleave.
C22_EventsIncrease ==
    backend \in {"sql", "json"}
    => \A c \in Clients : Increasing(EventNumbers(c))

\* one bin, its listeners and a failing disk: the runs of StreamSpec, with
\* storage calls and socket writes that may fail
PublishInit ==
    /\ Started
    /\ left = PublishRequests

PublishNext == StreamNext \/ Faults

PublishSpec == PublishInit /\ [][PublishNext]_vars

IsolationInit ==
    /\ StartedFor(IsolationClients)
    /\ left = IsolationRequests

IsolationNext == Traffic(Guids) \/ TrafficSteps \/ Streams(Guids)

IsolationSpec == IsolationInit /\ [][IsolationNext]_vars

\* the operations of the claim that are addressed to one bin
BinOps == {"capture", "renameUrl", "deleteLog", "deleteLogs", "deleteUrl"}

\* the step is taken by a request to bin a, or subscribes or unsubscribes a
\* connection of bin a
Addressed(a) ==
    \/ \E p \in Procs :
          /\ procs[p].pc # "idle"
          /\ procs[p].guid = a
          /\ procs[p].op \in BinOps
          /\ procs'[p] # procs[p]
    \/ LogsStream(a)
    \/ \E c \in Clients : CloseStream(c) /\ conn[c].guid = a

\* the step leaves the file and the subscriber set of bin b as they were and
\* sends nothing to the connections of b
Untouched(b) ==
    /\ files'[b] = files[b]
    /\ sseClients'[b] = sseClients[b]
    /\ \A c \in Clients : conn[c].guid = b => received'[c] = received[c]

\* C24: a step of an operation addressed to bin a leaves every other bin b
\* that has a file or subscribers untouched, and the process that holds the
\* subscriber set of b in its memory is still running after it.
C24_OtherBinsUntouched ==
    [][\A a, b \in Guids :
          (/\ a # b
           /\ files[b].exists \/ Listeners(b) # <<>>
           /\ Addressed(a))
          => /\ Untouched(b)
             /\ ~crashed']_vars

\* C25: in the relational and the flat-file server, of any two entries stored
\* in a bin the one with the smaller logNumber does not have the later
\* timestamp.
C25_NumbersFollowTime ==
    backend \in {"sql", "json"}
    => \A g \in Guids :
          \A i, j \in 1..Len(Stored(g)) :
             Stored(g)[i].logNumber < Stored(g)[j].logNumber
             => Stored(g)[i].timestamp <= Stored(g)[j].timestamp

\* one bin that is never deleted and two listeners: connections subscribe
\* and disconnect while captures publish
RegistryInit ==
    /\ StartedFor(RegistryClients)
    /\ left = RegistryRequests

RegistryNext ==
    \/ \E n \in ReqNames \cup {Untitled, NameFalse} : CreateUrl(n)
    \/ Capture("g1")
    \/ \E p \in Procs : FsAccess(p)
    \/ \E p \in Procs : InitDb(p)
    \/ \E p \in Procs : ReadFile(p)
    \/ \E p \in Procs : LogRequestStore(p)
    \/ \E p \in Procs : CreateStore(p)
    \/ LogsStream("g1")
    \/ \E c \in Clients : CloseStream(c)

RegistrySpec == RegistryInit /\ [][RegistryNext]_vars

\* C26: while the server runs and no delete-url has answered 200 for a bin,
\* the subscriber set of the bin holds exactly the connections that were
\* opened for it and have not closed, each once; so it is empty once all of
\* them have closed.
C26_RegistryIsOpenConnections ==
    \A g \in Guids :
        (~crashed /\ "deleteUrl" \notin done[g])
        => /\ Distinct(Listeners(g))
           /\ \A c \in Clients :
                 (conn[c].state = "open" /\ conn[c].guid = g)
                 <=> \E i \in 1..Len(Listeners(g)) : Listeners(g)[i] = c

\* two connections were opened for a bin that was not deleted, one has
\* closed, and the other, still registered, has received an event
C26_Witness ==
    \E c, d \in Clients :
        /\ ~crashed
        /\ backend # "legacy"
        /\ conn[c].guid = conn[d].guid
        /\ "deleteUrl" \notin done[conn[c].guid]
        /\ conn[c].state = "closed"
        /\ conn[d].state = "open"
        /\ Listeners(conn[d].guid) = <<d>>
        /\ received[d] # <<>>

\* C27: in the relational server the log numbers given out for a bin id, in
\* the order they were given out, hold no number twice, whatever was deleted
\* in between.
C27_NumbersNeverReused ==
    backend = "sql" => \A g \in Guids : Distinct(assigned[g])

====
